---- MODULE Spec2Model ----
(***************************************************************************)
(* A model of the runtime FTL parser of fluent-bundle (src/resource.js).   *)
(*                                                                         *)
(* A source text is a sequence of one-character strings.  Offsets (the     *)
(* cursor, every lastIndex) are the 0-based offsets of the JavaScript      *)
(* code; At(s, i) is s[i] of the code.                                     *)
(***************************************************************************)
EXTENDS Integers, Sequences, FiniteSets, TLC

VARIABLES
  isStickyRegexpSupported, \* resource.js:3-8, fixed when the module loads
  lastIndex,               \* the lastIndex of every module-level RegExp
  source,                  \* the argument of the running / last _parse
  resource,                \* _parse's local `resource`
  pc,                      \* "idle" | "scan" | "returned" | "thrown" | "diverged"
  log,                     \* history: the cursor of every parseMessage call
  parses,                  \* history: the number of constructor calls so far
  finished                 \* history: the outcome of every finished parse

vars == <<isStickyRegexpSupported, lastIndex, source, resource, pc, log,
          parses, finished>>

---------------------------------------------------------------------------
(* Characters and character classes of the regular expressions.            *)

Lower == {"a","b","c","d","e","f","g","h","i","j","k","l","m",
          "n","o","p","q","r","s","t","u","v","w","x","y","z"}
Upper == {"A","B","C","D","E","F","G","H","I","J","K","L","M",
          "N","O","P","Q","R","S","T","U","V","W","X","Y","Z"}
Digits == {"0","1","2","3","4","5","6","7","8","9"}
\* [a-zA-Z]
Alpha == Lower \cup Upper
\* [\w-]
IdentRest == Alpha \cup Digits \cup {"_", "-"}
\* [a-fA-F0-9]
HexChars == Digits \cup {"a","b","c","d","e","f","A","B","C","D","E","F"}
\* \s, as far as the sources of this model use it
Blank == {" ", "\n", "\r", "\t"}
\* the line terminators after which ^ matches under the /m flag
LineTerminators == {"\n", "\r"}
\* [^{}\n\r] and [^\\"\n\r] are written as the excluded sets
NotText == {"{", "}", "\n", "\r"}
NotStringRun == {"\\", "\"", "\n", "\r"}

\* source[i] read out of range
UNDEF == "undefined"
\* an unmatched capture group / an undefined local
Undefined == <<"undefined">>
\* the null of `attr = null`
NullAttr == <<"null">>

At(s, i) == IF i >= 0 /\ i < Len(s) THEN s[i + 1] ELSE UNDEF

\* s.slice(a, b) for 0 <= a, b
Slice(s, a, b) == SubSeq(s, a + 1, IF b > Len(s) THEN Len(s) ELSE b)

Min2(a, b) == IF a <= b THEN a ELSE b
Max2(a, b) == IF a >= b THEN a ELSE b

\* The end of the longest run of characters of C that starts at p.
RECURSIVE SkipIn(_, _, _)
SkipIn(s, p, C) == IF At(s, p) \in C THEN SkipIn(s, p + 1, C) ELSE p

\* The end of the longest run of characters outside C that starts at p.
RECURSIVE SkipNotIn(_, _, _)
SkipNotIn(s, p, C) ==
  IF p < Len(s) /\ s[p + 1] \notin C THEN SkipNotIn(s, p + 1, C) ELSE p

---------------------------------------------------------------------------
(* The regular expressions.  MatchAlt(re, k, s, p) is the match of the     *)
(* k-th top-level alternative of re attempted exactly at offset p of s:    *)
(* its end offset and capture groups, or NoMatch.                          *)

\* The functions of the module call one another by name: Call(name, args)
\* (defined after the last of them).
RECURSIVE Call(_, _)

M(e, a, b, c) == [end |-> e, g1 |-> a, g2 |-> b, g3 |-> c]
NoMatch == M(-1, Undefined, Undefined, Undefined)

\* ([a-zA-Z][\w-]*) at p: its end, or -1
IdentEnd(s, p) == IF At(s, p) \in Alpha THEN SkipIn(s, p + 1, IdentRest) ELSE -1

\* /\.([a-zA-Z][\w-]*) *= */
MatchAttributeStart(s, p) ==
  LET q == IdentEnd(s, p + 1)
      r == SkipIn(s, q, {" "})
  IN IF At(s, p) = "." /\ q >= 0 /\ At(s, r) = "="
       THEN M(SkipIn(s, r + 1, {" "}), Slice(s, p + 1, q), Undefined, Undefined)
       ELSE NoMatch

\* /\*?\[/
MatchVariantStart(s, p) ==
  LET q == IF At(s, p) = "*" THEN p + 1 ELSE p
  IN IF At(s, q) = "[" THEN M(q + 1, Undefined, Undefined, Undefined) ELSE NoMatch

\* /(-?[0-9]+(?:\.([0-9]+))?)/
MatchNumberLiteral(s, p) ==
  LET d == IF At(s, p) = "-" THEN p + 1 ELSE p
      q == SkipIn(s, d, Digits)
      r == SkipIn(s, q + 1, Digits)
  IN IF At(s, d) \notin Digits THEN NoMatch
     ELSE IF At(s, q) = "." /\ At(s, q + 1) \in Digits
       THEN M(r, Slice(s, p, r), Slice(s, q + 1, r), Undefined)
       ELSE M(q, Slice(s, p, q), Undefined, Undefined)

\* /([a-zA-Z][\w-]*)/
MatchIdentifier(s, p) ==
  LET q == IdentEnd(s, p)
  IN IF q >= 0 THEN M(q, Slice(s, p, q), Undefined, Undefined) ELSE NoMatch

\* /([$-])?([a-zA-Z][\w-]*)(?:\.([a-zA-Z][\w-]*))?/
MatchReference(s, p) ==
  LET n == IF At(s, p) \in {"$", "-"} THEN p + 1 ELSE p
      q == IdentEnd(s, n)
      r == IdentEnd(s, q + 1)
      sigil == IF n > p THEN Slice(s, p, n) ELSE Undefined
  IN IF q < 0 THEN NoMatch
     ELSE IF At(s, q) = "." /\ r >= 0
       THEN M(r, sigil, Slice(s, n, q), Slice(s, q + 1, r))
       ELSE M(q, sigil, Slice(s, n, q), Undefined)

\* The text run with * for +: a run may be empty.
MatchTextRunOrEmpty(s, p) ==
  LET q == SkipNotIn(s, p, NotText)
  IN M(q, Slice(s, p, q), Undefined, Undefined)

\* /([^{}\n\r]+)/
MatchTextRun(s, p) ==
  LET q == SkipNotIn(s, p, NotText)
  IN IF q > p THEN M(q, Slice(s, p, q), Undefined, Undefined) ELSE NoMatch

\* /([^\\"\n\r]*)/
MatchStringRun(s, p) ==
  LET q == SkipNotIn(s, p, NotStringRun)
  IN M(q, Slice(s, p, q), Undefined, Undefined)

\* /\\([\\"])/
MatchStringEscape(s, p) ==
  IF At(s, p) = "\\" /\ At(s, p + 1) \in {"\\", "\""}
    THEN M(p + 2, Slice(s, p + 1, p + 2), Undefined, Undefined)
    ELSE NoMatch

\* \\u([a-fA-F0-9]{4}), the first alternative of the unicode escape
MatchUnicode4(s, p) ==
  IF At(s, p) = "\\" /\ At(s, p + 1) = "u"
     /\ \A i \in 2..5 : At(s, p + i) \in HexChars
    THEN M(p + 6, Slice(s, p + 2, p + 6), Undefined, Undefined)
    ELSE NoMatch

\* \\U([a-fA-F0-9]{6}), the second alternative of the unicode escape
MatchUnicode6(s, p) ==
  IF At(s, p) = "\\" /\ At(s, p + 1) = "U"
     /\ \A i \in 2..7 : At(s, p + i) \in HexChars
    THEN M(p + 8, Undefined, Slice(s, p + 2, p + 8), Undefined)
    ELSE NoMatch

\* \s* lit \s*  (lead = FALSE: no leading \s*; the trailing run is of `trail`)
MatchToken(s, p, lead, lit, trail) ==
  LET q == IF lead THEN SkipIn(s, p, Blank) ELSE p
  IN IF Slice(s, q, q + Len(lit)) = lit
       THEN M(SkipIn(s, q + Len(lit), trail), Undefined, Undefined, Undefined)
       ELSE NoMatch

\* /\s*,?\s*/
MatchComma(s, p) ==
  LET q == SkipIn(s, p, Blank)
      r == IF At(s, q) = "," THEN q + 1 ELSE q
  IN M(SkipIn(s, r, Blank), Undefined, Undefined, Undefined)

\* /\s+/
MatchBlank(s, p) ==
  LET q == SkipIn(s, p, Blank)
  IN IF q > p THEN M(q, Undefined, Undefined, Undefined) ELSE NoMatch

\* The sticky patterns of the module, by the name of their constant.
StickyNames ==
  {"STICKY_RE_ATTRIBUTE_START", "STICKY_RE_VARIANT_START",
   "STICKY_RE_NUMBER_LITERAL", "STICKY_RE_IDENTIFIER", "STICKY_RE_REFERENCE",
   "STICKY_RE_TEXT_RUN", "STICKY_RE_STRING_RUN", "STICKY_RE_STRING_ESCAPE",
   "STICKY_RE_UNICODE_ESCAPE", "STICKY_TOKEN_BRACE_OPEN",
   "STICKY_TOKEN_BRACE_CLOSE", "STICKY_TOKEN_BRACKET_OPEN",
   "STICKY_TOKEN_BRACKET_CLOSE", "STICKY_TOKEN_PAREN_OPEN",
   "STICKY_TOKEN_ARROW", "STICKY_TOKEN_COLON", "STICKY_TOKEN_COMMA",
   "STICKY_TOKEN_BLANK"}

\* The number of top-level alternatives (a | b) of the pattern's source.
Alternatives(re) == IF re = "STICKY_RE_UNICODE_ESCAPE" THEN 2 ELSE 1

MatchAlt(re, k, s, p) ==
  CASE re = "STICKY_RE_ATTRIBUTE_START" -> MatchAttributeStart(s, p)
    [] re = "STICKY_RE_VARIANT_START" -> MatchVariantStart(s, p)
    [] re = "STICKY_RE_NUMBER_LITERAL" -> MatchNumberLiteral(s, p)
    [] re = "STICKY_RE_IDENTIFIER" -> MatchIdentifier(s, p)
    [] re = "STICKY_RE_REFERENCE" -> MatchReference(s, p)
    [] re = "STICKY_RE_TEXT_RUN" -> MatchTextRun(s, p)
    [] re = "STICKY_RE_STRING_RUN" -> MatchStringRun(s, p)
    [] re = "STICKY_RE_STRING_ESCAPE" -> MatchStringEscape(s, p)
    [] re = "STICKY_RE_UNICODE_ESCAPE" ->
         IF k = 1 THEN MatchUnicode4(s, p) ELSE MatchUnicode6(s, p)
    [] re = "STICKY_TOKEN_BRACE_OPEN" -> MatchToken(s, p, FALSE, <<"{">>, Blank)
    [] re = "STICKY_TOKEN_BRACE_CLOSE" -> MatchToken(s, p, TRUE, <<"}">>, {})
    [] re = "STICKY_TOKEN_BRACKET_OPEN" -> MatchToken(s, p, FALSE, <<"[">>, Blank)
    [] re = "STICKY_TOKEN_BRACKET_CLOSE" -> MatchToken(s, p, TRUE, <<"]">>, {" "})
    [] re = "STICKY_TOKEN_PAREN_OPEN" -> MatchToken(s, p, TRUE, <<"(">>, Blank)
    [] re = "STICKY_TOKEN_ARROW" -> MatchToken(s, p, TRUE, <<"-", ">">>, Blank)
    [] re = "STICKY_TOKEN_COLON" -> MatchToken(s, p, TRUE, <<":">>, Blank)
    [] re = "STICKY_TOKEN_COMMA" -> MatchComma(s, p)
    [] re = "STICKY_TOKEN_BLANK" -> MatchBlank(s, p)

\* The first alternative of re, in the order they are written, that matches
\* at p; `anchored` is the set of alternatives that may be tried at p.
FirstAlt(re, s, p, anchored) ==
  LET hits == {k \in anchored : Call("MatchAlt", <<re, k, s, p>>).end >= 0}
  IN IF hits = {} THEN NoMatch
     ELSE Call("MatchAlt", <<re, CHOOSE k \in hits : \A j \in hits : k <= j, s, p>>)

---------------------------------------------------------------------------
(* sticky(): the native sticky RegExp and its fallback.  exec and test     *)
(* return [ok, lastIndex, g1, g2, g3]: whether there was a match, the      *)
(* lastIndex they leave behind, and the capture groups.                    *)

X(ok, li, m) == [ok |-> ok, lastIndex |-> li, g1 |-> m.g1, g2 |-> m.g2, g3 |-> m.g3]

\* new RegExp(original.source, "y"): a match is attempted at lastIndex only;
\* lastIndex becomes the end of the match, or 0.
NativeExec(re, s, li) ==
  LET m == Call("FirstAlt", <<re, s, li, 1..Alternatives(re)>>)
  IN IF li <= Len(s) /\ m.end >= 0 THEN X(TRUE, m.end, m) ELSE X(FALSE, 0, NoMatch)

\* The alternatives of new RegExp(`^${original.source}`) that can match at
\* offset i of the sliced string: ^ is part of the first alternative only.
FallbackAlts(re, i) ==
  IF i = 0 THEN 1..Alternatives(re) ELSE 2..Alternatives(re)

\* wrapped.exec: re.exec(str.slice(this.lastIndex)), a search from the start
\* of the slice for the leftmost offset at which an alternative matches.
FallbackExec(re, s, li) ==
  LET str == Slice(s, li, Len(s))
      offsets == IF Alternatives(re) = 1 THEN {0} ELSE 0..Len(str)
      found == {i \in offsets : Call("FirstAlt", <<re, str, i, FallbackAlts(re, i)>>).end >= 0}
      i0 == CHOOSE i \in found : \A j \in found : i <= j
      m == Call("FirstAlt", <<re, str, i0, FallbackAlts(re, i0)>>)
  IN IF found = {} THEN X(FALSE, 0, NoMatch)
     ELSE X(TRUE, li + (m.end - i0), m)

sticky(native, re, s, li) ==
  IF native THEN Call("NativeExec", <<re, s, li>>) ELSE Call("FallbackExec", <<re, s, li>>)

\* /^(-?[a-zA-Z][\w-]*) *= */m attempted at offset p.
MatchMessageStart(s, p) ==
  LET d == IF At(s, p) = "-" THEN p + 1 ELSE p
      q == IdentEnd(s, d)
      r == SkipIn(s, q, {" "})
  IN IF (p = 0 \/ At(s, p - 1) \in LineTerminators) /\ q >= 0 /\ At(s, r) = "="
       THEN M(SkipIn(s, r + 1, {" "}), Slice(s, p, q), Undefined, Undefined)
       ELSE NoMatch

\* RE_MESSAGE_START.exec(source) of a /g RegExp: the leftmost match at or
\* after lastIndex; lastIndex becomes its end, or 0 when there is none.
ExecMessageStart(s, li) ==
  LET found == {i \in li..Len(s) : MatchMessageStart(s, i).end >= 0}
      i0 == CHOOSE i \in found : \A j \in found : i <= j
      m == MatchMessageStart(s, i0)
  IN IF found = {} THEN X(FALSE, 0, NoMatch) ELSE X(TRUE, m.end, m)

---------------------------------------------------------------------------
(* The parser state threaded through the closures of _parse: the local     *)
(* `cursor` and the lastIndex of the module's patterns.  A result is       *)
(* [k, st, v]: k = "ok" with the returned value v, or the kind of the      *)
(* exception thrown ("FluentError", "RangeError"), or "diverged" when a    *)
(* loop used up its fuel.                                                  *)

Ok(st, v) == [k |-> "ok", st |-> st, v |-> v]
Throw(kind, st) == [k |-> kind, st |-> st, v |-> Undefined]

\* More iterations than any loop over the source can make if each consumes
\* at least one character.
Fuel == Len(source) + 1

\* re.lastIndex = cursor
SetLastIndex(li, re, cursor) == [li EXCEPT ![re] = cursor]

test(re, st) ==
  LET li1 == SetLastIndex(st.li, re, st.cursor)
      x == Call("sticky", <<isStickyRegexpSupported, re, source, li1[re]>>)
  IN [st |-> [cursor |-> st.cursor, li |-> [li1 EXCEPT ![re] = x.lastIndex]],
      v |-> x.ok]

consumeChar(char, errorClass, st) ==
  IF At(source, st.cursor) = char THEN Ok([st EXCEPT !.cursor = @ + 1], TRUE)
  ELSE IF errorClass THEN Throw("FluentError", st)
  ELSE Ok(st, FALSE)

consumeToken(re, errorClass, st) ==
  LET t == Call("test", <<re, st>>)
  IN IF t.v THEN Ok([t.st EXCEPT !.cursor = t.st.li[re]], TRUE)
     ELSE IF errorClass THEN Throw("FluentError", t.st)
     ELSE Ok(t.st, FALSE)

match(re, st) ==
  LET li1 == SetLastIndex(st.li, re, st.cursor)
      x == Call("sticky", <<isStickyRegexpSupported, re, source, li1[re]>>)
      st1 == [cursor |-> st.cursor, li |-> [li1 EXCEPT ![re] = x.lastIndex]]
  IN IF x.ok THEN Ok([st1 EXCEPT !.cursor = x.lastIndex], x)
     ELSE Throw("FluentError", st1)

match1(re, st) ==
  LET m == Call("match", <<re, st>>)
  IN IF m.k = "ok" THEN Ok(m.st, m.v.g1) ELSE m

---------------------------------------------------------------------------
(* Values of the tree.  A text element (a JavaScript string in an element  *)
(* list) is [type |-> "text", value]; a pattern is Null, a "string" or an  *)
(* "array" of elements.                                                    *)

Null == [type |-> "null"]
Text(v) == [type |-> "text", value |-> v]

\* text.replace(/^\n+/, "")
RECURSIVE TrimLeadingNewlines(_)
TrimLeadingNewlines(text) ==
  IF Len(text) > 0 /\ Head(text) = "\n" THEN TrimLeadingNewlines(Tail(text)) ELSE text

\* text.replace(/ +$/, "")
RECURSIVE TrimTrailingSpaces(_)
TrimTrailingSpaces(text) ==
  IF Len(text) > 0 /\ text[Len(text)] = " "
    THEN TrimTrailingSpaces(SubSeq(text, 1, Len(text) - 1))
    ELSE text

trim(text, re) ==
  IF re = "RE_LEADING_NEWLINES" THEN TrimLeadingNewlines(text)
  ELSE TrimTrailingSpaces(text)

\* blank.replace(/ *\r?\n/g, "\n") from offset i on
RECURSIVE ReplaceBlankLines(_, _)
ReplaceBlankLines(blank, i) ==
  LET j == SkipIn(blank, i, {" "})
      n == IF At(blank, j) = "\r" THEN j + 1 ELSE j
  IN IF i >= Len(blank) THEN <<>>
     ELSE IF At(blank, n) = "\n" THEN <<"\n">> \o ReplaceBlankLines(blank, n + 1)
     ELSE <<blank[i + 1]>> \o ReplaceBlankLines(blank, i + 1)

\* RE_INDENT.exec(blank)[1].length: the length of the final run of spaces
RECURSIVE TrailingSpaces(_)
TrailingSpaces(blank) ==
  IF Len(blank) > 0 /\ blank[Len(blank)] = " "
    THEN 1 + TrailingSpaces(SubSeq(blank, 1, Len(blank) - 1))
    ELSE 0

makeIndent(blank) ==
  [type |-> "indent", value |-> ReplaceBlankLines(blank, 0),
   length |-> TrailingSpaces(blank)]

\* The `false` that parseIndent returns for a blank run that ends the pattern.
NoIndent == [type |-> "false"]

\* The test of parseIndent taking any blank character for indentation.
IsBlankBefore(last) == last \in Blank

\* source[cursor - 1] === " "
IsIndented(last) == last = " "

parseIndent(st) ==
  LET start == st.cursor
      b == Call("consumeToken", <<"STICKY_TOKEN_BLANK", FALSE, st>>)
      cursor == b.st.cursor
      c == At(source, cursor)
  IN IF c \in {".", "[", "*", "}", UNDEF} THEN [st |-> b.st, v |-> NoIndent]
     ELSE IF c = "{" THEN [st |-> b.st, v |-> makeIndent(Slice(source, start, cursor))]
     ELSE IF IsIndented(At(source, cursor - 1))
       THEN [st |-> b.st, v |-> makeIndent(Slice(source, start, cursor))]
     ELSE [st |-> b.st, v |-> NoIndent]

---------------------------------------------------------------------------
(* Literals and escapes.                                                   *)

HexDigits == <<"0","1","2","3","4","5","6","7","8","9","a","b","c","d","e","f">>
HexUpper == <<"0","1","2","3","4","5","6","7","8","9","A","B","C","D","E","F">>

HexValue(c) == (CHOOSE i \in 1..16 : c \in {HexDigits[i], HexUpper[i]}) - 1

\* parseInt(text, 16) of a run of hex digits
RECURSIVE parseInt16(_)
parseInt16(text) ==
  IF Len(text) = 0 THEN 0
  ELSE 16 * parseInt16(SubSeq(text, 1, Len(text) - 1)) + HexValue(text[Len(text)])

\* The characters U+0020 .. U+007E, in order (U+0060 by its code point).
Ascii ==
  <<" ","!","\"","#","$","%","&","'","(",")","*","+",",","-",".","/",
    "0","1","2","3","4","5","6","7","8","9",":",";","<","=",">","?",
    "@","A","B","C","D","E","F","G","H","I","J","K","L","M","N","O",
    "P","Q","R","S","T","U","V","W","X","Y","Z","[","\\","]","^","_",
    "U+96","a","b","c","d","e","f","g","h","i","j","k","l","m","n","o",
    "p","q","r","s","t","u","v","w","x","y","z","{","|","}","~">>

\* The largest code point String.fromCodePoint accepts (0x10FFFF).
MaxCodePoint == 1114111

\* The one character with this code point: itself for printable ASCII,
\* otherwise named by its code point.
CodePointChar(codepoint) ==
  IF codepoint >= 32 /\ codepoint <= 126 THEN Ascii[codepoint - 31]
  ELSE "U+" \o ToString(codepoint)

\* U+FFFD REPLACEMENT CHARACTER
ReplacementChar == CodePointChar(65533)

\* codepoint <= 0xD7FF || 0xE000 <= codepoint
IsScalarValue(codepoint) == codepoint <= 55295 \/ 57344 <= codepoint

\* String.fromCodePoint(codepoint): a RangeError above 0x10FFFF.
fromCodePoint(codepoint, st) ==
  IF codepoint > MaxCodePoint THEN Throw("RangeError", st)
  ELSE Ok(st, <<CodePointChar(codepoint)>>)

parseEscapeSequence(st) ==
  LET t1 == Call("test", <<"STICKY_RE_STRING_ESCAPE", st>>)
      t2 == Call("test", <<"STICKY_RE_UNICODE_ESCAPE", t1.st>>)
      m == Call("match", <<"STICKY_RE_UNICODE_ESCAPE", t2.st>>)
      codepoint == parseInt16(IF m.v.g1 # Undefined THEN m.v.g1 ELSE m.v.g2)
  IN IF t1.v THEN Call("match1", <<"STICKY_RE_STRING_ESCAPE", t1.st>>)
     ELSE IF t2.v THEN
       IF m.k # "ok" THEN m
       ELSE IF IsScalarValue(codepoint) THEN fromCodePoint(codepoint, m.st)
       ELSE Ok(m.st, <<ReplacementChar>>)
     ELSE Throw("FluentError", t2.st)

\* One iteration of the while (true) of parseStringLiteral.
StringLiteralBody(L) ==
  LET m == Call("match1", <<"STICKY_RE_STRING_RUN", L.st>>)
      value == L.value \o m.v
      e == Call("parseEscapeSequence", <<m.st>>)
      q == Call("consumeChar", <<"\"", FALSE, m.st>>)
  IN IF m.k # "ok" THEN [L EXCEPT !.k = m.k, !.st = m.st]
     ELSE IF At(source, m.st.cursor) = "\\" THEN
       IF e.k # "ok" THEN [L EXCEPT !.k = e.k, !.st = e.st]
       ELSE [L EXCEPT !.st = e.st, !.value = value \o e.v]
     ELSE IF q.v THEN [L EXCEPT !.k = "return", !.st = q.st, !.value = value]
     ELSE [L EXCEPT !.k = "FluentError", !.st = q.st]

RECURSIVE StringLiteralLoop(_, _)
StringLiteralLoop(L, fuel) ==
  IF L.k # "loop" THEN L
  ELSE IF fuel = 0 THEN [L EXCEPT !.k = "diverged"]
  ELSE StringLiteralLoop(StringLiteralBody(L), fuel - 1)

parseStringLiteral(st) ==
  LET q == Call("consumeChar", <<"\"", TRUE, st>>)
      L == StringLiteralLoop([k |-> "loop", st |-> q.st, value |-> <<>>], Fuel)
  IN IF q.k # "ok" THEN q
     ELSE IF L.k = "return" THEN Ok(L.st, [type |-> "str", value |-> L.value])
     ELSE Throw(L.k, L.st)

\* The value of a run of decimal digits
RECURSIVE DecimalValue(_)
DecimalValue(text) ==
  IF Len(text) = 0 THEN 0
  ELSE 10 * DecimalValue(SubSeq(text, 1, Len(text) - 1)) + HexValue(text[Len(text)])

\* digits / 10^scale with the trailing zeros of the fraction cancelled
RECURSIVE Reduce(_, _)
Reduce(digits, scale) ==
  IF scale > 0 /\ digits % 10 = 0 THEN Reduce(digits \div 10, scale - 1)
  ELSE [digits |-> digits, scale |-> scale]

\* parseFloat(value) of a matched -?[0-9]+(\.[0-9]+)?: the number as a
\* reduced decimal fraction (equal numbers have equal representations).
parseFloat(value, fraction) ==
  LET neg == Head(value) = "-"
      text == SelectSeq(value, LAMBDA c : c \in Digits)
      r == Reduce(DecimalValue(text), Len(fraction))
  IN [digits |-> IF neg THEN 0 - r.digits ELSE r.digits, scale |-> r.scale]

parseNumberLiteral(st) ==
  LET m == Call("match", <<"STICKY_RE_NUMBER_LITERAL", st>>)
      fraction == IF m.v.g2 = Undefined THEN <<>> ELSE m.v.g2
  IN IF m.k # "ok" THEN m
     ELSE Ok(m.st, [type |-> "num", number |-> parseFloat(m.v.g1, fraction),
                    precision |-> Len(fraction)])

parseLiteral(st) ==
  LET t == Call("test", <<"STICKY_RE_NUMBER_LITERAL", st>>)
  IN IF t.v THEN Call("parseNumberLiteral", <<t.st>>)
     ELSE IF At(source, t.st.cursor) = "\"" THEN Call("parseStringLiteral", <<t.st>>)
     ELSE Throw("FluentError", t.st)

parseVariantKey(st) ==
  LET o == Call("consumeToken", <<"STICKY_TOKEN_BRACKET_OPEN", TRUE, st>>)
      t == Call("test", <<"STICKY_RE_NUMBER_LITERAL", o.st>>)
      n == Call("parseNumberLiteral", <<t.st>>)
      i == Call("match1", <<"STICKY_RE_IDENTIFIER", t.st>>)
      key == IF t.v THEN n
             ELSE IF i.k = "ok" THEN Ok(i.st, [type |-> "str", value |-> i.v])
             ELSE i
      c == Call("consumeToken", <<"STICKY_TOKEN_BRACKET_CLOSE", TRUE, key.st>>)
  IN IF o.k # "ok" THEN o
     ELSE IF key.k # "ok" THEN key
     ELSE IF c.k # "ok" THEN c
     ELSE Ok(c.st, key.v)

\* RE_FUNCTION_NAME = /^[A-Z][A-Z0-9_-]*$/
IsFunctionName(name) ==
  /\ Len(name) > 0
  /\ name[1] \in Upper
  /\ \A i \in 2..Len(name) : name[i] \in Upper \cup Digits \cup {"_", "-"}

---------------------------------------------------------------------------
(* Patterns, placeables and expressions: the mutually recursive closures.  *)

MAX_PLACEABLES == 100

\* The Infinity passed as commonIndent: larger than any indent.
Infinity == 1000000

RECURSIVE PatternElementsLoop(_, _)
RECURSIVE ArgumentsLoop(_, _)
RECURSIVE VariantsLoop(_, _)

parsePattern(st) ==
  LET t == Call("test", <<"STICKY_RE_TEXT_RUN", st>>)
      m == IF t.v THEN Call("match1", <<"STICKY_RE_TEXT_RUN", t.st>>) ELSE Ok(t.st, Undefined)
      first == m.v
      c == At(source, m.st.cursor)
      i == Call("parseIndent", <<m.st>>)
      indent == i.v
  IN IF m.k # "ok" THEN m
     ELSE IF c = "{" \/ c = "}" THEN
       Call("parsePatternElements", <<IF first # Undefined THEN <<Text(first)>> ELSE <<>>,
                            Infinity, m.st>>)
     ELSE IF indent.type = "indent" THEN
       IF first # Undefined
         THEN Call("parsePatternElements", <<<<Text(first), indent>>, indent.length, i.st>>)
         ELSE Call("parsePatternElements", <<
                <<[indent EXCEPT !.value = trim(@, "RE_LEADING_NEWLINES")]>>,
                indent.length, i.st>>)
     ELSE IF first # Undefined
       THEN Ok(i.st, [type |-> "string", value |-> trim(first, "RE_TRAILING_SPACES")])
     ELSE Ok(i.st, Null)

\* The limit test off by one.
PlaceablesAtLimit(placeableCount) == placeableCount >= MAX_PLACEABLES

\* ++placeableCount > MAX_PLACEABLES
TooManyPlaceables(placeableCount) == placeableCount > MAX_PLACEABLES

\* One iteration of the while (true) of parsePatternElements.
PatternElementsBody(L) ==
  LET t == Call("test", <<"STICKY_RE_TEXT_RUN", L.st>>)
      m == Call("match1", <<"STICKY_RE_TEXT_RUN", t.st>>)
      c == At(source, t.st.cursor)
      count == L.placeableCount + 1
      p == Call("parsePlaceable", <<t.st>>)
      i == Call("parseIndent", <<t.st>>)
  IN IF t.v THEN
       IF m.k # "ok" THEN [L EXCEPT !.k = m.k, !.st = m.st]
       ELSE [L EXCEPT !.st = m.st, !.elements = Append(@, Text(m.v))]
     ELSE IF c = "{" THEN
       IF TooManyPlaceables(count)
         THEN [L EXCEPT !.k = "FluentError", !.st = t.st, !.placeableCount = count]
       ELSE IF p.k # "ok" THEN [L EXCEPT !.k = p.k, !.st = p.st, !.placeableCount = count]
       ELSE [L EXCEPT !.st = p.st, !.elements = Append(@, p.v), !.placeableCount = count]
     ELSE IF c = "}" THEN [L EXCEPT !.k = "FluentError", !.st = t.st]
     ELSE IF i.v.type = "indent" THEN
       [L EXCEPT !.st = i.st, !.elements = Append(@, i.v),
                 !.commonIndent = Min2(@, i.v.length)]
     ELSE [L EXCEPT !.k = "break", !.st = i.st]

\* Up to `fuel` iterations of the loop, halving the fuel so that a long
\* pattern does not nest the evaluation deeply.
PatternElementsLoop(L, fuel) ==
  IF L.k # "loop" THEN L
  ELSE IF fuel <= 1 THEN PatternElementsBody(L)
  ELSE PatternElementsLoop(PatternElementsLoop(L, fuel \div 2), fuel - (fuel \div 2))

\* Trim the trailing spaces in the last element if it's a TextElement.
TrimLast(elements) ==
  LET lastIndex_ == Len(elements)
  IN IF lastIndex_ > 0 /\ elements[lastIndex_].type = "text"
       THEN [elements EXCEPT ![lastIndex_] = Text(trim(@.value, "RE_TRAILING_SPACES"))]
       ELSE elements

\* value.slice(0, end) for any integer end
SliceTo(value, end) ==
  IF end < 0 THEN SubSeq(value, 1, Max2(Len(value) + end, 0))
  ELSE SubSeq(value, 1, Min2(end, Len(value)))

\* Dedent cutting at the start of the value rather than at its end.
DedentAtStart(element, commonIndent) ==
  [type |-> "text",
   value |-> SubSeq(element.value, commonIndent + 1, Len(element.value))]

\* The amount cut from the end of an indent's value.
Dedent(element, commonIndent) ==
  Text(SliceTo(element.value, Len(element.value) - commonIndent))

\* The loop that fills `baked`.
Bake(elements, commonIndent) ==
  LET dedented == [n \in 1..Len(elements) |->
                     IF elements[n].type = "indent"
                       THEN Dedent(elements[n], commonIndent)
                       ELSE elements[n]]
  IN SelectSeq(dedented, LAMBDA e : ~(e.type = "text" /\ e.value = <<>>))

parsePatternElements(elements, commonIndent, st) ==
  LET L == PatternElementsLoop(
             [k |-> "loop", st |-> st, elements |-> elements,
              commonIndent |-> commonIndent, placeableCount |-> 0], Fuel)
  IN IF L.k = "loop" THEN Throw("diverged", L.st)
     ELSE IF L.k # "break" THEN Throw(L.k, L.st)
     ELSE Ok(L.st, [type |-> "array",
                    elements |-> Bake(TrimLast(L.elements), L.commonIndent)])

\* {type: "select", selector, ...variants}: spreading null adds nothing.
SelectExpression(selector, variants) ==
  IF variants.type = "null" THEN [type |-> "select", selector |-> selector]
  ELSE [type |-> "select", selector |-> selector,
        variants |-> variants.variants, star |-> variants.star]

parsePlaceable(st) ==
  LET o == Call("consumeToken", <<"STICKY_TOKEN_BRACE_OPEN", TRUE, st>>)
      selector == Call("parseInlineExpression", <<o.st>>)
      c == Call("consumeToken", <<"STICKY_TOKEN_BRACE_CLOSE", FALSE, selector.st>>)
      a == Call("consumeToken", <<"STICKY_TOKEN_ARROW", FALSE, c.st>>)
      variants == Call("parseVariants", <<a.st>>)
      c2 == Call("consumeToken", <<"STICKY_TOKEN_BRACE_CLOSE", TRUE, variants.st>>)
  IN IF o.k # "ok" THEN o
     ELSE IF selector.k # "ok" THEN selector
     ELSE IF c.v THEN Ok(c.st, selector.v)
     ELSE IF a.v THEN
       IF variants.k # "ok" THEN variants
       ELSE IF c2.k # "ok" THEN c2
       ELSE Ok(c2.st, SelectExpression(selector.v, variants.v))
     ELSE Throw("FluentError", a.st)

parseInlineExpression(st) ==
  LET t == Call("test", <<"STICKY_RE_REFERENCE", st>>)
      m == Call("match", <<"STICKY_RE_REFERENCE", t.st>>)
      sigil == m.v.g1
      name == m.v.g2
      attr == IF m.v.g3 = Undefined THEN NullAttr ELSE m.v.g3
      o == Call("consumeToken", <<"STICKY_TOKEN_PAREN_OPEN", FALSE, m.st>>)
      args == Call("parseArguments", <<o.st>>)
  IN IF At(source, st.cursor) = "{" THEN Call("parsePlaceable", <<st>>)
     ELSE IF t.v THEN
       IF m.k # "ok" THEN m
       ELSE IF sigil = <<"$">> THEN Ok(m.st, [type |-> "var", name |-> name])
       ELSE IF o.v THEN
         IF args.k # "ok" THEN args
         ELSE IF sigil = <<"-">>
           THEN Ok(args.st, [type |-> "term", name |-> name, attr |-> attr,
                             args |-> args.v])
         ELSE IF IsFunctionName(name)
           THEN Ok(args.st, [type |-> "func", name |-> name, args |-> args.v])
         ELSE Throw("FluentError", args.st)
       ELSE IF sigil = <<"-">>
         THEN Ok(o.st, [type |-> "term", name |-> name, attr |-> attr, args |-> <<>>])
       ELSE Ok(o.st, [type |-> "mesg", name |-> name, attr |-> attr])
     ELSE Call("parseLiteral", <<t.st>>)

parseArgument(st) ==
  LET expr == Call("parseInlineExpression", <<st>>)
      c == Call("consumeToken", <<"STICKY_TOKEN_COLON", FALSE, expr.st>>)
      value == Call("parseLiteral", <<c.st>>)
  IN IF expr.k # "ok" THEN expr
     ELSE IF expr.v.type # "mesg" THEN expr
     ELSE IF c.v THEN
       IF value.k # "ok" THEN value
       ELSE Ok(value.st, [type |-> "narg", name |-> expr.v.name, value |-> value.v])
     ELSE Ok(c.st, expr.v)

\* One iteration of the while (true) of parseArguments.
ArgumentsBody(L) ==
  LET c == At(source, L.st.cursor)
      a == Call("parseArgument", <<L.st>>)
      comma == Call("consumeToken", <<"STICKY_TOKEN_COMMA", FALSE, a.st>>)
  IN IF c = ")" THEN [L EXCEPT !.k = "return", !.st.cursor = @ + 1]
     ELSE IF c = UNDEF THEN [L EXCEPT !.k = "FluentError"]
     ELSE IF a.k # "ok" THEN [L EXCEPT !.k = a.k, !.st = a.st]
     ELSE [L EXCEPT !.st = comma.st, !.args = Append(@, a.v)]

ArgumentsLoop(L, fuel) ==
  IF L.k # "loop" THEN L
  ELSE IF fuel = 0 THEN [L EXCEPT !.k = "diverged"]
  ELSE ArgumentsLoop(ArgumentsBody(L), fuel - 1)

parseArguments(st) ==
  LET L == ArgumentsLoop([k |-> "loop", st |-> st, args |-> <<>>], Fuel)
  IN IF L.k = "return" THEN Ok(L.st, L.args) ELSE Throw(L.k, L.st)

\* `star` of parseVariants while it is undefined
NoStar == -1

\* One iteration of the while of parseVariants.
VariantsBody(L) ==
  LET t == Call("test", <<"STICKY_RE_VARIANT_START", L.st>>)
      s == Call("consumeChar", <<"*", FALSE, t.st>>)
      key == Call("parseVariantKey", <<s.st>>)
      value == Call("parsePattern", <<key.st>>)
  IN IF ~t.v THEN [L EXCEPT !.k = "break", !.st = t.st]
     ELSE IF key.k # "ok" THEN [L EXCEPT !.k = key.k, !.st = key.st]
     ELSE IF value.k # "ok" THEN [L EXCEPT !.k = value.k, !.st = value.st]
     ELSE IF value.v.type = "null" THEN [L EXCEPT !.k = "FluentError", !.st = value.st]
     ELSE [L EXCEPT !.st = value.st,
                    !.star = IF s.v THEN L.count ELSE @,
                    !.variants = Append(@, [key |-> key.v, value |-> value.v]),
                    !.count = @ + 1]

VariantsLoop(L, fuel) ==
  IF L.k # "loop" THEN L
  ELSE IF fuel = 0 THEN [L EXCEPT !.k = "diverged"]
  ELSE VariantsLoop(VariantsBody(L), fuel - 1)

\* if (count === 0) return null
NoVariants(count) == count = 0

parseVariants(st) ==
  LET L == VariantsLoop([k |-> "loop", st |-> st, variants |-> <<>>,
                         count |-> 0, star |-> NoStar], Fuel)
  IN IF L.k # "break" THEN Throw(L.k, L.st)
     ELSE IF NoVariants(L.count) THEN Ok(L.st, Null)
     ELSE IF L.star = NoStar THEN Throw("FluentError", L.st)
     ELSE Ok(L.st, [type |-> "variants", variants |-> L.variants, star |-> L.star])

\* attrs[name] = value
SetAttribute(attrs, name, value) ==
  IF \E n \in 1..Len(attrs) : attrs[n].name = name
    THEN [n \in 1..Len(attrs) |->
            IF attrs[n].name = name THEN [name |-> name, value |-> value] ELSE attrs[n]]
    ELSE Append(attrs, [name |-> name, value |-> value])

\* One iteration of the while of parseAttributes.
AttributesBody(L) ==
  LET t == Call("test", <<"STICKY_RE_ATTRIBUTE_START", L.st>>)
      name == Call("match1", <<"STICKY_RE_ATTRIBUTE_START", t.st>>)
      value == Call("parsePattern", <<name.st>>)
  IN IF ~t.v THEN [L EXCEPT !.k = "break", !.st = t.st]
     ELSE IF name.k # "ok" THEN [L EXCEPT !.k = name.k, !.st = name.st]
     ELSE IF value.k # "ok" THEN [L EXCEPT !.k = value.k, !.st = value.st]
     ELSE IF value.v.type = "null" THEN [L EXCEPT !.k = "FluentError", !.st = value.st]
     ELSE [L EXCEPT !.st = value.st, !.attrs = SetAttribute(@, name.v, value.v)]

RECURSIVE AttributesLoop(_, _)
AttributesLoop(L, fuel) ==
  IF L.k # "loop" THEN L
  ELSE IF fuel = 0 THEN [L EXCEPT !.k = "diverged"]
  ELSE AttributesLoop(AttributesBody(L), fuel - 1)

parseAttributes(st) ==
  LET L == AttributesLoop([k |-> "loop", st |-> st, attrs |-> <<>>], Fuel)
  IN IF L.k = "break" THEN Ok(L.st, L.attrs) ELSE Throw(L.k, L.st)

\* The test of parseMessage with the comparison of the length inverted.
MissingValueOnly(value, attributes) ==
  value.type = "null" /\ Len(attributes) # 0

\* value === null && Object.keys(attributes).length === 0
MissingValueAndAttributes(value, attributes) ==
  value.type = "null" /\ Len(attributes) = 0

parseMessage(id, st) ==
  LET value == Call("parsePattern", <<st>>)
      attributes == Call("parseAttributes", <<value.st>>)
  IN IF value.k # "ok" THEN value
     ELSE IF attributes.k # "ok" THEN attributes
     ELSE IF MissingValueAndAttributes(value.v, attributes.v)
       THEN Throw("FluentError", attributes.st)
     ELSE Ok(attributes.st,
             [id |-> id, value |-> value.v, attributes |-> attributes.v])

Call(name, a) ==
  CASE name = "MatchAlt" -> MatchAlt(a[1], a[2], a[3], a[4])
    [] name = "FirstAlt" -> FirstAlt(a[1], a[2], a[3], a[4])
    [] name = "NativeExec" -> NativeExec(a[1], a[2], a[3])
    [] name = "FallbackExec" -> FallbackExec(a[1], a[2], a[3])
    [] name = "sticky" -> sticky(a[1], a[2], a[3], a[4])
    [] name = "test" -> test(a[1], a[2])
    [] name = "consumeChar" -> consumeChar(a[1], a[2], a[3])
    [] name = "consumeToken" -> consumeToken(a[1], a[2], a[3])
    [] name = "match" -> match(a[1], a[2])
    [] name = "match1" -> match1(a[1], a[2])
    [] name = "parseIndent" -> parseIndent(a[1])
    [] name = "parseEscapeSequence" -> parseEscapeSequence(a[1])
    [] name = "parseStringLiteral" -> parseStringLiteral(a[1])
    [] name = "parseNumberLiteral" -> parseNumberLiteral(a[1])
    [] name = "parseLiteral" -> parseLiteral(a[1])
    [] name = "parseVariantKey" -> parseVariantKey(a[1])
    [] name = "parsePattern" -> parsePattern(a[1])
    [] name = "parsePatternElements" -> parsePatternElements(a[1], a[2], a[3])
    [] name = "parsePlaceable" -> parsePlaceable(a[1])
    [] name = "parseInlineExpression" -> parseInlineExpression(a[1])
    [] name = "parseArgument" -> parseArgument(a[1])
    [] name = "parseArguments" -> parseArguments(a[1])
    [] name = "parseVariants" -> parseVariants(a[1])
    [] name = "parseAttributes" -> parseAttributes(a[1])
    [] name = "parseMessage" -> parseMessage(a[1], a[2])

---------------------------------------------------------------------------
(* The sources the resources are constructed from.                         *)

\* a message with a simple value
LineSimple ==
  <<"a"," ","="," ","x","\n">>

\* an entry-start followed by nothing
LineNoValue ==
  <<"b"," ","=","\n">>

\* a message with no value and one attribute
LineAttrOnly ==
  <<"c"," ","=","\n"," ",".","t"," ","="," ","y","\n">>

\* an attribute with no pattern
LineAttrNoValue ==
  <<"d"," ","="," ","x","\n"," ",".","t"," ","=","\n">>

\* a select expression whose second variant is the default
LineSelect ==
  <<"e"," ","="," ","{","$","n"," ","-",">","\n"," ","[","o","]"," ","O","\n"," ","*","[","p","]"," ","P","\n","}","\n">>

\* a select expression with no default variant
LineNoStar ==
  <<"f"," ","="," ","{","$","n"," ","-",">","\n"," ","[","o","]"," ","O","\n","}","\n">>

\* a select expression with no variant
LineNoVariants ==
  <<"g"," ","="," ","{","$","n"," ","-",">","\n","}","\n">>

\* a string literal with escapes
LineEscape ==
  <<"h"," ","="," ","{","\"","\\","u","0","0","4","1","\\","\\","\"","}","\n">>

\* an escape above U+10FFFF
LineBigEscape ==
  <<"i"," ","="," ","{","\"","\\","U","1","1","0","0","0","0","\"","}","\n">>

\* the malformed line of the scenario
LineBogus ==
  <<"b","o","g","u","s"," ","=","=","=","\n">>

\* a comment
LineComment ==
  <<"#"," ","c","\n">>

\* a term with calls and arguments
LineCall ==
  <<"-","k"," ","="," ","{","F","(","m",".","n",":"," ","1",".","5","0",","," ","$","v",")","}","{","-","t","(","j",")","}","\n">>

Lines ==
  {LineSimple, LineNoValue, LineAttrOnly, LineAttrNoValue, LineSelect, LineNoStar, LineNoVariants, LineEscape, LineBigEscape, LineBogus, LineComment, LineCall}

\* The largest number of lines of a source.
MaxEntries == 2

RECURSIVE Flatten(_)
Flatten(seqs) == IF Len(seqs) = 0 THEN <<>> ELSE Head(seqs) \o Flatten(Tail(seqs))

\* Every concatenation of 1 .. n members of L.
Concatenations(L, n) ==
  {Flatten(seqs) : seqs \in UNION {[1..k -> L] : k \in 1..n}}

Sources == Concatenations(Lines, MaxEntries)

---------------------------------------------------------------------------
(* The constructor and its scan loop.                                      *)

PatternNames == StickyNames \cup {"RE_MESSAGE_START"}

Init ==
  /\ isStickyRegexpSupported \in BOOLEAN
  /\ lastIndex = [re \in PatternNames |-> 0]
  /\ source = <<>>
  /\ resource = <<>>
  /\ pc = "idle"
  /\ log = <<>>
  /\ parses = 0
  /\ finished = <<>>

\* _parse without the reset of the scanner's position.
KeepMessageStart(li) == li

\* RE_MESSAGE_START.lastIndex = 0
ResetMessageStart(li) == [li EXCEPT !["RE_MESSAGE_START"] = 0]

\* The entry of _parse: the statements before the scan loop.
EnterParse(src) ==
  /\ source' = src
  /\ lastIndex' = ResetMessageStart(lastIndex)
  /\ resource' = <<>>
  /\ log' = <<>>
  /\ pc' = "scan"
  /\ parses' = parses + 1
  /\ UNCHANGED <<isStickyRegexpSupported, finished>>

\* new FluentResource(source), the first one after the module is loaded.
Construct(S) ==
  /\ pc = "idle"
  /\ \E src \in S : EnterParse(src)

\* The largest number of resources constructed one after the other.
MaxParses == 3

\* new FluentResource(source) after an earlier one returned or threw.
ConstructAgain(S) ==
  /\ pc \in {"returned", "thrown"}
  /\ parses < MaxParses
  /\ \E src \in S : EnterParse(src)

\* Push as it would be if a failed entry emptied the list.
PushOrClear(body, r) == IF r.k = "ok" THEN Append(body, r.v) ELSE <<>>

\* What the iteration does with the outcome of parseMessage: push the
\* entry, or skip a FluentError.
Push(body, r) == IF r.k = "ok" THEN Append(body, r.v) ELSE body

\* Where the iteration goes: round the loop again, or out of _parse with
\* the error that is not a FluentError.
AfterEntry(r) ==
  IF r.k \in {"ok", "FluentError"} THEN "scan"
  ELSE IF r.k = "diverged" THEN "diverged"
  ELSE "thrown"

\* What the caller of the constructor gets: the resource, or the exception
\* and no resource.
Outcome(pc1, body) ==
  [source |-> source, pc |-> pc1, body |-> IF pc1 = "returned" THEN body ELSE <<>>]

\* Every finished parse is remembered, in order (history only).
Remember(pc1, body) ==
  finished' = IF pc1 \in {"returned", "thrown"}
                THEN Append(finished, Outcome(pc1, body))
                ELSE finished

\* One iteration of the while (true) of _parse.
ScanStep ==
  /\ pc = "scan"
  /\ LET next == ExecMessageStart(source, lastIndex["RE_MESSAGE_START"])
         li1 == [lastIndex EXCEPT !["RE_MESSAGE_START"] = next.lastIndex]
         cursor == next.lastIndex
         r == Call("parseMessage", <<next.g1, [cursor |-> cursor, li |-> li1]>>)
     IN IF ~next.ok
          THEN /\ lastIndex' = li1
               /\ pc' = "returned"
               /\ Remember("returned", resource)
               /\ UNCHANGED <<resource, log>>
          ELSE /\ lastIndex' = r.st.li
               /\ resource' = Push(resource, r)
               /\ log' = Append(log, cursor)
               /\ pc' = AfterEntry(r)
               /\ Remember(AfterEntry(r), Push(resource, r))
  /\ UNCHANGED <<isStickyRegexpSupported, source, parses>>

Next == Construct(Sources) \/ ScanStep

Spec == Init /\ [][Next]_vars

---------------------------------------------------------------------------
(* What a finished parse is measured against.                              *)

\* Every pattern position at zero: the module as it is first loaded.
FreshLastIndex == [re \in PatternNames |-> 0]

\* The offsets of `s` at which an entry-start matches, in source order.
RECURSIVE Ascending(_)
Ascending(S) ==
  IF S = {} THEN <<>>
  ELSE LET lo == CHOOSE i \in S : \A j \in S : i <= j
       IN <<lo>> \o Ascending(S \ {lo})

EntryStarts(s) == Ascending({p \in 0..Len(s) : MatchMessageStart(s, p).end >= 0})

\* The entry at the entry-start at offset p parsed on its own: a result
\* [k, st, v] of parseMessage.
OwnParse(s, p) ==
  LET m == MatchMessageStart(s, p)
  IN Call("parseMessage", <<m.g1, [cursor |-> m.end, li |-> FreshLastIndex]>>)

\* The entries, in order, of the entry-starts whose own parse succeeded.
RECURSIVE Successes(_, _)
Successes(s, starts) ==
  IF Len(starts) = 0 THEN <<>>
  ELSE LET r == OwnParse(s, Head(starts))
       IN (IF r.k = "ok" THEN <<r.v>> ELSE <<>>) \o Successes(s, Tail(starts))

\* The select expressions of a parsed tree are well formed.
RECURSIVE SelectsWellFormed(_)
SelectsWellFormed(e) ==
  CASE e.type = "array" ->
         \A n \in 1..Len(e.elements) : SelectsWellFormed(e.elements[n])
    [] e.type = "select" ->
         /\ "variants" \in DOMAIN e
         /\ Len(e.variants) >= 1
         /\ e.star \in 0..(Len(e.variants) - 1)
         /\ SelectsWellFormed(e.selector)
         /\ \A n \in 1..Len(e.variants) : SelectsWellFormed(e.variants[n].value)
    [] e.type \in {"term", "func"} ->
         \A n \in 1..Len(e.args) : SelectsWellFormed(e.args[n])
    [] OTHER -> TRUE

EntrySelectsWellFormed(entry) ==
  /\ SelectsWellFormed(entry.value)
  /\ \A n \in 1..Len(entry.attributes) : SelectsWellFormed(entry.attributes[n].value)

\* Some select expression of the tree has the star on its variant number
\* `star` (from 0) of `count`.
RECURSIVE HasSelect(_, _, _)
HasSelect(e, count, star) ==
  CASE e.type = "array" ->
         \E n \in 1..Len(e.elements) : HasSelect(e.elements[n], count, star)
    [] e.type = "select" ->
         /\ "variants" \in DOMAIN e
         /\ Len(e.variants) = count
         /\ e.star = star
    [] OTHER -> FALSE

\* C1: constructing a resource returns an entry list for every source: no
\* exception raised while an entry is parsed leaves the scan loop of _parse.
C1_NoExceptionEscapes == pc # "thrown"

\* C2: the resource is exactly the entries whose own parse succeeded, one
\* for each entry-start of the source and in source order: every iteration
\* of the scan takes the next entry-start, a failed entry appends nothing
\* and changes nothing already in the list, and the constructor returns
\* only after every entry-start was attempted.
C2_ResourceIsSuccessfulEntries ==
  pc \in {"scan", "returned"} =>
    LET starts == EntryStarts(source)
        n == Len(log)
    IN /\ n <= Len(starts)
       /\ \A i \in 1..n : log[i] = MatchMessageStart(source, starts[i]).end
       /\ resource = Successes(source, SubSeq(starts, 1, n))
       /\ pc = "returned" => n = Len(starts)

\* C2 witness: a returned resource of a source whose first entry failed and
\* whose second entry is the whole list.
C2_Witness ==
  /\ pc = "returned"
  /\ source = LineNoStar \o LineSimple
  /\ Len(log) = 2
  /\ Len(resource) = 1
  /\ resource[1].id = <<"a">>

\* C3: every select expression of a produced resource has at least one
\* variant and a star index that is an index of its variants; `->` followed
\* by no variant, or by variants with no default, fails the entry.
C3_SelectsHaveDefault ==
  /\ \A n \in 1..Len(resource) : EntrySelectsWellFormed(resource[n])
  /\ (pc = "returned" /\ source \in {LineNoStar, LineNoVariants}) => resource = <<>>
  /\ (pc = "returned" /\ source = LineSelect) =>
       /\ Len(resource) = 1
       /\ HasSelect(resource[1].value, 2, 1)

\* C6: every entry of a produced resource has a value or at least one
\* attribute, and every attribute has a value; an entry-start with neither
\* a pattern nor an attribute, or an attribute with no pattern, fails that
\* entry and no other.
C6_EntriesHaveValueOrAttribute ==
  /\ \A n \in 1..Len(resource) :
       /\ resource[n].value.type # "null" \/ Len(resource[n].attributes) >= 1
       /\ \A a \in 1..Len(resource[n].attributes) :
            resource[n].attributes[a].value.type # "null"
  /\ \A bad \in {LineNoValue, LineAttrNoValue} :
       /\ (pc = "returned" /\ source = bad \o LineAttrOnly) =>
            (Len(resource) = 1 /\ resource[1].id = <<"c">>)
       /\ (pc = "returned" /\ source = LineAttrOnly \o bad) =>
            (Len(resource) = 1 /\ resource[1].id = <<"c">>)

\* C6 witness: the resource of an entry with no value and one attribute,
\* after an entry-start with nothing behind it was dropped.
C6_Witness ==
  /\ pc = "returned"
  /\ source = LineNoValue \o LineAttrOnly
  /\ Len(resource) = 1
  /\ resource[1].value.type = "null"
  /\ Len(resource[1].attributes) = 1

\* C9: for every pattern of the token set and every cursor of the source,
\* the fallback sticky matcher has the outcome and the position of the
\* native one: a match only where the pattern matches at the cursor, and
\* the position just past the matched text.
C9_FallbackAgreesWithNative ==
  \A re \in StickyNames : \A cursor \in 0..Len(source) :
    Call("FallbackExec", <<re, source, cursor>>) = Call("NativeExec", <<re, source, cursor>>)

---------------------------------------------------------------------------
(* Sources with about MAX_PLACEABLES placeables in one pattern.            *)

\* How far below and above MAX_PLACEABLES the counts of placeables go.
MaxMargin == 5

\* `unit` n times over.
Repeat(unit, n) == [i \in 1..(n * Len(unit)) |-> unit[((i - 1) % Len(unit)) + 1]]

EntryHead == <<"a", " ", "=", " ">>

\* a = {b}{b}...{b}: n placeables, all directly in the element list
Flat(n) == EntryHead \o Repeat(<<"{", "b", "}">>, n) \o <<"\n">>

\* a = {{b}}{{b}}...{{b}}: n placeables in the element list, each with one
\* placeable nested in it
Nested(n) == EntryHead \o Repeat(<<"{", "{", "b", "}", "}">>, n) \o <<"\n">>

PlaceableCounts == (MAX_PLACEABLES - MaxMargin)..(MAX_PLACEABLES + MaxMargin)

\* Numbers of nested pairs whose placeables number more than MAX_PLACEABLES
\* while those of the element list do not.
NestedCounts ==
  ((MAX_PLACEABLES \div 2) + 1)..((MAX_PLACEABLES \div 2) + 1 + 2 * MaxMargin)

PlaceableSources ==
  {Flat(n) : n \in PlaceableCounts} \cup {Nested(n) : n \in NestedCounts}

NextPlaceables == Construct(PlaceableSources) \/ ScanStep

SpecPlaceables == Init /\ [][NextPlaceables]_vars

\* The number of placeables of a source of PlaceableSources: its `{`.
Placeables(s) == Cardinality({i \in 1..Len(s) : s[i] = "{"})

\* C4: a pattern with more than 100 placeables in its element list fails its
\* entry, which is then absent from the resource, and a pattern with 100
\* placeables or fewer parses, to that many elements.
C4_PlaceableLimit ==
  \A n \in PlaceableCounts :
    (pc = "returned" /\ source = Flat(n)) =>
      IF n > MAX_PLACEABLES THEN resource = <<>>
      ELSE /\ Len(resource) = 1
           /\ resource[1].value.type = "array"
           /\ Len(resource[1].value.elements) = n

\* C4 witness: the pattern with 101 placeables was attempted and dropped.
C4_Witness ==
  /\ pc = "returned"
  /\ source = Flat(MAX_PLACEABLES + 1)
  /\ Len(log) = 1
  /\ resource = <<>>

\* C5: nested placeables count toward the limit: a pattern whose placeables,
\* those of its element list and those nested in them, number more than 100
\* fails its entry.
C5_NestedPlaceablesCount ==
  (pc = "returned" /\ Placeables(source) > MAX_PLACEABLES) => resource = <<>>

---------------------------------------------------------------------------
(* Sources with one escape in a string literal.                            *)

Hex4 ==
  {<<a, b, c, d>> : a \in {"0", "D", "E", "F"}, b \in {"0", "7", "8", "F"},
                    c \in {"0", "4", "F"}, d \in {"0", "1", "a", "F"}}

Hex6 ==
  {<<a, b>> \o h : a \in {"0", "1", "F"}, b \in {"0", "1", "F"},
                   h \in {<<c, d, e, f>> : c \in {"0", "D", "F"}, d \in {"0", "8", "F"},
                                           e \in {"0", "F"}, f \in {"0", "1", "F"}}}

\* Escapes of no form of the grammar, on their own and before one of the
\* 6-digit form.
OtherEscapes ==
  {<<"\\", "q">>, <<"\\", "n">>, <<"\\", "x", "4", "1">>, <<"\\", "u", "0", "0", "4">>,
   <<"\\", "u", "0", "0", "G", "0">>, <<"\\", "U", "0", "0", "4", "1">>,
   <<"\\", "{">>, <<"\\", "q", "\\", "U", "0", "0", "0", "0", "4", "1">>}

Escapes ==
  {<<"\\", "u">> \o h : h \in Hex4} \cup {<<"\\", "U">> \o h : h \in Hex6}
    \cup {<<"\\", "\\">>, <<"\\", "\"">>} \cup OtherEscapes

\* a = {"<escape>"}
EscapeSource(escape) ==
  EntryHead \o <<"{", "\"">> \o escape \o <<"\"", "}", "\n">>

EscapeSources == {EscapeSource(escape) : escape \in Escapes}

NextEscape == Construct(EscapeSources) \/ ScanStep

SpecEscape == Init /\ [][NextEscape]_vars

\* The text between the quotes of a source of EscapeSources.
EscapeOf(s) == SubSeq(s, Len(EntryHead) + 3, Len(s) - 3)

IsHexRun(text) == \A i \in 1..Len(text) : text[i] \in HexChars

\* The number a run of hex digits writes, most significant digit first.
RECURSIVE HexNumber(_)
HexNumber(text) ==
  IF Len(text) = 0 THEN 0
  ELSE HexValue(Head(text)) * (16 ^ (Len(text) - 1)) + HexNumber(Tail(text))

\* The character an escape of the grammar stands for, <<>> for any other
\* escape form.
Decoded(escape) ==
  LET digits == SubSeq(escape, 3, Len(escape))
      codepoint == HexNumber(digits)
      unicode == /\ IsHexRun(digits)
                 /\ \/ escape[2] = "u" /\ Len(digits) = 4
                    \/ escape[2] = "U" /\ Len(digits) = 6
  IN IF unicode
       THEN IF codepoint \in 55296..57343 THEN <<ReplacementChar>>
            ELSE <<CodePointChar(codepoint)>>
     ELSE IF escape \in {<<"\\", "\\">>, <<"\\", "\"">>} THEN <<escape[2]>>
     ELSE <<>>

\* C8: in a string literal every 4-digit and every 6-digit unicode escape
\* decodes to the one character with its code point, the replacement
\* character for 0xD800..0xDFFF; a backslash before a backslash or a quote
\* decodes to that character; any other escape fails the entry.
C8_EscapesDecode ==
  pc \in {"returned", "thrown"} =>
    /\ pc = "returned"
    /\ IF Decoded(EscapeOf(source)) = <<>> THEN resource = <<>>
       ELSE /\ Len(resource) = 1
            /\ resource[1].value =
                 [type |-> "array",
                  elements |-> <<[type |-> "str", value |-> Decoded(EscapeOf(source))]>>]

---------------------------------------------------------------------------
(* Sources with one multi-line pattern.                                    *)

\* The largest number of continuation lines of a pattern.
MaxLines == 2

\* The largest number of leading spaces of a continuation line.
MaxIndent == 3

\* What stands on the line of the entry-start: nothing (a block pattern), a
\* text, or a placeable.
FirstLines == {<<>>, <<"x">>, <<"{", "b", "}">>}

\* The line ends of a source.
LineEnds == {<<"\n">>, <<"\r", "\n">>}

\* The text of continuation line number n: lines of different lengths.
LineText(n) == [i \in 1..n |-> IF i % 2 = 1 THEN "y" ELSE "z"]

Spaces(n) == [i \in 1..n |-> " "]

\* The depths of the continuation lines of a pattern.
Depths == UNION {[1..k -> 1..MaxIndent] : k \in 1..MaxLines}

RECURSIVE ContinuationLines(_, _, _)
ContinuationLines(depths, lineEnd, n) ==
  IF n > Len(depths) THEN <<>>
  ELSE lineEnd \o Spaces(depths[n]) \o LineText(n)
         \o ContinuationLines(depths, lineEnd, n + 1)

IndentSource(first, lineEnd, depths) ==
  (IF first = <<>> THEN <<"a", " ", "=">> ELSE EntryHead \o first)
    \o ContinuationLines(depths, lineEnd, 1) \o lineEnd

IndentSources ==
  {IndentSource(first, lineEnd, depths) :
     first \in FirstLines, lineEnd \in LineEnds, depths \in Depths}

NextIndent == Construct(IndentSources) \/ ScanStep

SpecIndent == Init /\ [][NextIndent]_vars

\* The smallest of the depths.
MinDepth(depths) ==
  CHOOSE d \in {depths[n] : n \in 1..Len(depths)} :
    \A n \in 1..Len(depths) : d <= depths[n]

\* The continuation lines, each after a line feed and without its first
\* K spaces.
RECURSIVE Dedented(_, _, _)
Dedented(depths, K, n) ==
  IF n > Len(depths) THEN <<>>
  ELSE <<"\n">> \o Spaces(depths[n] - K) \o LineText(n) \o Dedented(depths, K, n + 1)

\* The text of the pattern: the text of the first line, if any, and the
\* dedented continuation lines joined by line feeds.
ExpectedText(first, depths) ==
  LET lines == Dedented(depths, MinDepth(depths), 1)
  IN IF first = <<>> THEN Tail(lines)
     ELSE IF first = <<"x">> THEN first \o lines
     ELSE lines

\* The text fragments of a pattern, concatenated.
RECURSIVE Fragments(_)
Fragments(elements) ==
  IF Len(elements) = 0 THEN <<>>
  ELSE (IF Head(elements).type = "text" THEN Head(elements).value ELSE <<>>)
         \o Fragments(Tail(elements))

\* C7: the text fragments of a multi-line pattern, concatenated, are its
\* continuation lines joined by single line feeds, each without its K
\* leading spaces when all have K of them, K >= 1, and without the smallest
\* depth of the pattern when the depths differ.
C7_CommonIndentRemoved ==
  \A first \in FirstLines : \A lineEnd \in LineEnds : \A depths \in Depths :
    (pc = "returned" /\ source = IndentSource(first, lineEnd, depths)) =>
      /\ Len(resource) = 1
      /\ resource[1].value.type = "array"
      /\ Fragments(resource[1].value.elements) = ExpectedText(first, depths)

\* C7 witness: a block pattern of two lines, the first deeper than the
\* second, parsed to the text that keeps the difference.
C7_Witness ==
  /\ pc = "returned"
  /\ source = IndentSource(<<>>, <<"\n">>, <<3, 2>>)
  /\ Len(resource) = 1
  /\ Fragments(resource[1].value.elements) = <<" ", "y", "\n", "y", "z">>

---------------------------------------------------------------------------
(* Resources constructed one after the other.                              *)

ReparseSources ==
  {LineSimple, LineBigEscape, LineSelect, LineEscape,
   LineNoStar \o LineCall, LineSimple \o LineBigEscape \o LineAttrOnly}

NextReparse ==
  Construct(ReparseSources) \/ ConstructAgain(ReparseSources) \/ ScanStep

SpecReparse == Init /\ [][NextReparse]_vars

\* C10: two parses of the same source have the same outcome, the same
\* resource or the same error, whatever was parsed between them and however
\* it ended.
C10_SameSourceSameResource ==
  \A i \in 1..Len(finished) : \A j \in 1..Len(finished) :
    finished[i].source = finished[j].source => finished[i] = finished[j]

\* C10 witness: a source parsed to a resource with an entry, then a parse
\* aborted by an error, then the first source parsed again.
C10_Witness ==
  /\ Len(finished) = 3
  /\ finished[1].source = finished[3].source
  /\ finished[1].pc = "returned"
  /\ Len(finished[1].body) >= 1
  /\ finished[2].pc = "thrown"

---------------------------------------------------------------------------
(* Sources with one run of blank characters after the first line of a      *)
(* pattern.                                                                *)

\* The largest number of blank characters after the line feed of a run.
MaxBlank == 2

\* A line feed and up to MaxBlank blank characters.
BlankRuns ==
  {<<"\n">> \o run : run \in UNION {[1..k -> Blank] : k \in 0..MaxBlank}}

\* What follows the run: nothing (the end of input), or a line that starts
\* with one of the special characters, with a placeable, or with text.
BlankTails ==
  {<<>>, <<".", "\n">>, <<"[", "\n">>, <<"*", "\n">>, <<"}", "\n">>,
   <<"{", "b", "}", "\n">>, <<"y", "\n">>, <<"=", "\n">>}

BlankSource(first, run, tail) ==
  (IF first = <<>> THEN <<"a", " ", "=">> ELSE EntryHead \o first) \o run \o tail

BlankSources ==
  {BlankSource(first, run, tail) :
     first \in FirstLines, run \in BlankRuns, tail \in BlankTails}

NextBlank == Construct(BlankSources) \/ ScanStep

SpecBlank == Init /\ [][NextBlank]_vars

\* The cases in which a blank run before `next` goes on with the pattern.
Continues(run, next) ==
  \/ next = "{"
  \/ /\ next \notin {".", "[", "*", "}", "{", UNDEF}
     /\ run[Len(run)] = " "

\* The resource when the pattern is over after its first line: the entry
\* with the first line alone, and no entry when the first line is empty.
EndedAfter(first) ==
  IF first = <<>> THEN <<>>
  ELSE <<[id |-> <<"a">>,
          value |-> IF first = <<"x">>
                      THEN [type |-> "string", value |-> first]
                      ELSE [type |-> "array",
                            elements |-> <<[type |-> "mesg", name |-> <<"b">>,
                                            attr |-> NullAttr]>>],
          attributes |-> <<>>]>>

\* The offsets of the source at which a run of blank characters starts.
RunStarts(s) ==
  {c \in 0..(Len(s) - 1) : At(s, c) \in Blank /\ (c = 0 \/ At(s, c - 1) \notin Blank)}

\* The run of blank characters that starts at offset c.
RunAt(s, c) == Slice(s, c, SkipIn(s, c, Blank))

\* C11: a run of blank characters goes on with the pattern exactly when the
\* next character is `{`, or is none of `.`, `[`, `*`, `}`, `{`, the end of
\* input while the run ends with a space; otherwise the pattern ends there:
\* parseIndent answers so for every run of the source and leaves the cursor
\* behind the run, and the parsed entry has more than its first line
\* exactly in those cases.
C11_BlankRunContinues ==
  /\ \A c \in RunStarts(source) :
       LET run == RunAt(source, c)
           end == c + Len(run)
           r == Call("parseIndent", <<[cursor |-> c, li |-> lastIndex]>>)
       IN /\ r.st.cursor = end
          /\ (r.v.type = "indent") <=> Continues(run, At(source, end))
  /\ \A first \in FirstLines : \A run \in BlankRuns : \A tail \in BlankTails :
       (pc = "returned" /\ source = BlankSource(first, run, tail)) =>
         ((resource # EndedAfter(first)) <=> Continues(run, At(tail, 0)))

\* C11 witness: after a line feed with no space behind it the line of text
\* is left out of the pattern before it, whose entry is returned.
C11_Witness ==
  /\ pc = "returned"
  /\ source = BlankSource(<<"x">>, <<"\n", " ", "\n">>, <<"y", "\n">>)
  /\ resource = EndedAfter(<<"x">>)

---------------------------------------------------------------------------
(* Sources that end inside a construct, and the progress of the loops.     *)

\* An argument list, a string literal, a variant list, a placeable and a
\* pattern cut off by the end of input.
LineUnclosedCall ==
  <<"j", " ", "=", " ", "{", "F", "(", "m", ",", " ", "1">>

LineUnclosedString ==
  <<"k", " ", "=", " ", "{", "\"", "a", "\\", "\\", "b">>

LineUnclosedSelect ==
  <<"l", " ", "=", " ", "{", "$", "n", " ", "-", ">", "\n", " ", "[", "o", "]", " ", "O", "\n", " ", "*", "[", "p">>

LineUnclosedPlaceable ==
  <<"m", " ", "=", " ", "x", "{">>

LineUnclosedPattern ==
  <<"n", " ", "=", " ", "x", "\n", " ", "y", "\n", " ">>

UnclosedLines ==
  {LineUnclosedCall, LineUnclosedString, LineUnclosedSelect,
   LineUnclosedPlaceable, LineUnclosedPattern}

\* The sources of Sources, and those with an unclosed last line.
TerminationSources ==
  Sources \cup {prefix \o last : prefix \in {<<>>} \cup Lines, last \in UnclosedLines}

NextTerminates == Construct(TerminationSources) \/ ScanStep

\* The constructor runs to completion on one thread: while the while (true)
\* of _parse has not been left, its next iteration is executed. This is the
\* weak fairness of ScanStep, WF_vars(ScanStep), with ENABLED <<ScanStep>>_vars
\* written out as pc = "scan": ScanStep has no other guard, and each of its
\* branches changes pc or lengthens log.
ScanRuns == []<>(pc # "scan") \/ []<><<ScanStep>>_vars

SpecTerminates == Init /\ [][NextTerminates]_vars /\ ScanRuns

\* The parser state with the cursor at offset c.
StateAt(c) == [cursor |-> c, li |-> lastIndex]

\* One iteration took the loop from L0 to L1: it went on only with the
\* cursor further on, and the cursor is within the source.
Advanced(L0, L1) ==
  /\ L1.k = "loop" => L1.st.cursor > L0.st.cursor
  /\ L1.k # "diverged"
  /\ L1.st.cursor <= Len(source)

\* An iteration of each of the loops, started at offset c.
LoopsAdvanceAt(c) ==
  LET elements == [k |-> "loop", st |-> StateAt(c), elements |-> <<>>,
                   commonIndent |-> Infinity, placeableCount |-> 0]
      arguments == [k |-> "loop", st |-> StateAt(c), args |-> <<>>]
      variants == [k |-> "loop", st |-> StateAt(c), variants |-> <<>>,
                   count |-> 0, star |-> NoStar]
      literal == [k |-> "loop", st |-> StateAt(c), value |-> <<>>]
      attributes == [k |-> "loop", st |-> StateAt(c), attrs |-> <<>>]
      next == ExecMessageStart(source, c)
  IN /\ Advanced(elements, PatternElementsBody(elements))
     /\ Advanced(arguments, ArgumentsBody(arguments))
     /\ Advanced(variants, VariantsBody(variants))
     /\ Advanced(literal, StringLiteralBody(literal))
     /\ Advanced(attributes, AttributesBody(attributes))
     /\ next.ok => (next.lastIndex > c /\ next.lastIndex <= Len(source))

\* Every iteration of every loop, wherever in the source it starts, goes
\* on only with its position further on; no loop runs on; and every entry
\* is left with the cursor within the source.
LoopsAdvance ==
  /\ pc # "diverged"
  /\ (pc = "scan" /\ log = <<>>) =>
       /\ \A c \in 0..Len(source) : LoopsAdvanceAt(c)
       /\ \A n \in 1..Len(EntryStarts(source)) :
            LET r == OwnParse(source, EntryStarts(source)[n])
            IN r.k # "diverged" /\ r.st.cursor <= Len(source)

\* An iteration of the scan loop that is followed by another one has moved
\* the scan position on.
ScanAdvances ==
  (pc = "scan" /\ pc' = "scan") =>
    /\ lastIndex'["RE_MESSAGE_START"] > lastIndex["RE_MESSAGE_START"]
    /\ lastIndex'["RE_MESSAGE_START"] <= Len(source)

\* C12: parsing ends for every source: each iteration of the entry scan,
\* the pattern-elements, the argument-list, the variants and the
\* string-literal loop moves its position on, returns or raises an error,
\* the cursor stays within the source, and the constructor returns or
\* throws.
C12_ParsingTerminates ==
  /\ []LoopsAdvance
  /\ [][ScanAdvances]_vars
  /\ (pc = "scan") ~> (pc \in {"returned", "thrown"})

\* C12 witness: the constructor has returned from a source that ends in the
\* middle of an argument list, after an entry whose loops all ran.
C12_Witness ==
  /\ pc = "returned"
  /\ source = LineCall \o LineUnclosedCall
  /\ Len(log) = 2
  /\ Len(resource) = 1

====
